---- MODULE Spec2Model ----
(***************************************************************************)
(* A model of the simple-redis core: the per-type RESP codec (src/resp),   *)
(* the recursive-descent RESP parser with its length-only scan             *)
(* (src/respv2/parser.rs) and the command layer (src/cmd).                 *)
(*                                                                         *)
(* Bytes are one-character strings; CR and LF stand for '\r' and '\n'.     *)
(* A frame value is a record [type, null, data]: for a BulkString data is  *)
(* the byte sequence, for an Array the sequence of element frames; null    *)
(* is the None of the Option the Rust types wrap.                          *)
(***************************************************************************)
EXTENDS Integers, Sequences, FiniteSets, TLC

VARIABLES buf, wire, scan, last, backend, cmd, executed, conns, sent

vars == <<buf, wire, scan, last, backend, cmd, executed, conns, sent>>

(***************************************************************************)
(* Bounds of the model.                                                    *)
(***************************************************************************)
MaxData == 1

MaxElems == 2

MaxBuf == 24

MaxArgs == 3

\* connections that share the backend
MaxConns == 2

(***************************************************************************)
(* Bytes and sequences.                                                    *)
(***************************************************************************)
CR == "CR"

LF == "LF"

CRLF == <<CR, LF>>

CRLF_LEN == Len(CRLF)

Take(s, n) == SubSeq(s, 1, n)

Drop(s, n) == SubSeq(s, n + 1, Len(s))

StartsWith(s, p) == Len(s) >= Len(p) /\ Take(s, Len(p)) = p

IsStrictPrefix(p, s) == Len(p) < Len(s) /\ Take(s, Len(p)) = p

DigitChars == <<"0", "1", "2", "3", "4", "5", "6", "7", "8", "9">>

IsDigit(b) == \E i \in 1..10 : DigitChars[i] = b

DigitVal(b) == (CHOOSE i \in 1..10 : DigitChars[i] = b) - 1

\* format!("{}", n) of an unsigned length
RECURSIVE FmtNat(_)
FmtNat(n) ==
    IF n < 10 THEN <<DigitChars[n + 1]>>
    ELSE FmtNat(n \div 10) \o <<DigitChars[(n % 10) + 1]>>

\* the value of a non-empty run of decimal digits
RECURSIVE DigitsVal(_)
DigitsVal(s) ==
    IF s = <<>> THEN 0
    ELSE 10 * DigitsVal(Take(s, Len(s) - 1)) + DigitVal(s[Len(s)])

AllDigits(s) == s # <<>> /\ \A i \in 1..Len(s) : IsDigit(s[i])

\* str::parse::<isize>: an optional sign, then one or more digits
ParseIsize(s) ==
    IF s # <<>> /\ s[1] \in {"+", "-"}
    THEN IF AllDigits(Tail(s))
         THEN [ok |-> TRUE,
               val |-> IF s[1] = "-" THEN 0 - DigitsVal(Tail(s)) ELSE DigitsVal(Tail(s))]
         ELSE [ok |-> FALSE, val |-> 0]
    ELSE IF AllDigits(s) THEN [ok |-> TRUE, val |-> DigitsVal(s)]
         ELSE [ok |-> FALSE, val |-> 0]

\* the 1-based position of the first CR LF in s at or after position from, 0 if none
FindCRLF(s, from) ==
    LET hits == {i \in from..(Len(s) - 1) : s[i] = CR /\ s[i + 1] = LF}
    IN IF hits = {} THEN 0 ELSE CHOOSE i \in hits : \A j \in hits : i <= j

(***************************************************************************)
(* Frame values.                                                           *)
(***************************************************************************)
NoFrame == [type |-> "None", null |-> TRUE, data |-> <<>>]

BulkString(bytes) == [type |-> "BulkString", null |-> FALSE, data |-> bytes]

NullBulkString == [type |-> "BulkString", null |-> TRUE, data |-> <<>>]

RespArray(frames) == [type |-> "Array", null |-> FALSE, data |-> frames]

NullArray == [type |-> "Array", null |-> TRUE, data |-> <<>>]

Boolean(b) == [type |-> "Boolean", null |-> FALSE, data |-> <<IF b THEN "true" ELSE "false">>]

RespNull == [type |-> "Null", null |-> FALSE, data |-> <<>>]

SimpleString(text) == [type |-> "SimpleString", null |-> FALSE, data |-> text]

SimpleError(text) == [type |-> "Error", null |-> FALSE, data |-> text]

Integer(n) == [type |-> "Integer", null |-> FALSE, data |-> <<n>>]

Double(n) == [type |-> "Double", null |-> FALSE, data |-> <<n>>]

\* a map is kept as its pairs <<key, value>> in key order, keys unique (BTreeMap)
RespMap(pairs) == [type |-> "Map", null |-> FALSE, data |-> pairs]

\* structural equality of frames (derive(PartialEq)): the variant first, then the payload
RECURSIVE FrameEq(_, _)
FrameEq(f, g) ==
    /\ f.type = g.type
    /\ f.null = g.null
    /\ Len(f.data) = Len(g.data)
    /\ IF f.type = "Array"
       THEN \A i \in 1..Len(f.data) : FrameEq(f.data[i], g.data[i])
       ELSE IF f.type = "Map"
       THEN \A i \in 1..Len(f.data) :
                f.data[i][1] = g.data[i][1] /\ FrameEq(f.data[i][2], g.data[i][2])
       ELSE f.data = g.data

(***************************************************************************)
(* Encoding (RespEncode).                                                  *)
(***************************************************************************)
RECURSIVE RespFrameEncode(_)

RECURSIVE EncodeAll(_)

\* Bulk strings: "$<length>\r\n<data>\r\n"; null bulk strings: "$-1\r\n"
BulkStringEncode(b) ==
    IF b.null THEN <<"$", "-", "1", CR, LF>>
    ELSE <<"$">> \o FmtNat(Len(b.data)) \o CRLF \o b.data \o CRLF

\* Arrays: "*<number-of-elements>\r\n<element-1>...<element-n>"; null arrays: "*-1\r\n"
RespArrayEncode(a) ==
    IF a.null THEN <<"*", "-", "1", CR, LF>>
    ELSE <<"*">> \o FmtNat(Len(a.data)) \o CRLF \o EncodeAll(a.data)

EncodeAll(frames) ==
    IF frames = <<>> THEN <<>>
    ELSE RespFrameEncode(Head(frames)) \o EncodeAll(Tail(frames))

BooleanEncode(f) == <<"#", IF f.data[1] = "true" THEN "t" ELSE "f">> \o CRLF

RespNullEncode(f) == <<"_">> \o CRLF

SimpleStringEncode(f) == <<"+">> \o f.data \o CRLF

RespFrameEncode(f) ==
    CASE f.type = "BulkString" -> BulkStringEncode(f)
      [] f.type = "Array" -> RespArrayEncode(f)
      [] f.type = "Boolean" -> BooleanEncode(f)
      [] f.type = "Null" -> RespNullEncode(f)
      [] f.type = "SimpleString" -> SimpleStringEncode(f)

(***************************************************************************)
(* The per-type codec of src/resp: helpers.                                *)
(***************************************************************************)
LengthToken(status, end, len) == [status |-> status, end |-> end, len |-> len]

\* the length token of a frame: <prefix><signed length>\r\n.  end is the
\* number of bytes before the CR (Rust's 0-based index of '\r').
parse_length_isize(b, prefix) ==
    LET Parsed(at, num) ==
            IF ~num.ok THEN LengthToken("InvalidFrame", 0, 0)
            ELSE IF num.val < -1 THEN LengthToken("InvalidFrame", 0, 0)
            ELSE LengthToken("Ok", at - 1, num.val)
        Found(at) ==
            IF at = 0 THEN LengthToken("NotComplete", 0, 0)
            ELSE Parsed(at, ParseIsize(SubSeq(b, 2, at - 1)))
    IN IF b = <<>> THEN LengthToken("NotComplete", 0, 0)
       ELSE IF b[1] # prefix THEN LengthToken("InvalidFrame", 0, 0)
       ELSE Found(FindCRLF(b, 1))

Length(status, n) == [status |-> status, n |-> n]

RECURSIVE RespFrameExpectLength(_)

RECURSIVE calc_total_length(_, _, _, _)

\* calc_total_length: the bytes of the length token plus those of len nested frames,
\* each measured by RespFrame::expect_length on what follows the one before; a
\* nested frame that claims more bytes than are buffered is not complete.
\* SumLengths is its loop: data is the unread slice, total the bytes so far.
RECURSIVE SumLengths(_, _, _)
SumLengths(data, n, total) ==
    LET Step(r) ==
            IF r.status # "Ok" THEN r
            ELSE IF r.n > Len(data) THEN Length("NotComplete", 0)
            ELSE SumLengths(Drop(data, r.n), n - 1, total + r.n)
    IN IF n <= 0 THEN Length("Ok", total)
       ELSE Step(RespFrameExpectLength(data))

calc_total_length(b, end, len, prefix) ==
    IF prefix = "*" THEN SumLengths(Drop(b, end + CRLF_LEN), len, end + CRLF_LEN)
    ELSE Length("Ok", len + CRLF_LEN)

BulkStringExpectLength(b) ==
    LET Measure(r) ==
            IF r.status # "Ok" THEN Length(r.status, 0)
            ELSE IF r.len = -1 THEN Length("Ok", r.end + CRLF_LEN)
            ELSE Length("Ok", r.end + CRLF_LEN + r.len + CRLF_LEN)
    IN Measure(parse_length_isize(b, "$"))

RespArrayExpectLength(b) ==
    LET Measure(r) ==
            IF r.status # "Ok" THEN Length(r.status, 0)
            ELSE IF r.len = -1 THEN Length("Ok", r.end + CRLF_LEN)
            ELSE calc_total_length(b, r.end, r.len, "*")
    IN Measure(parse_length_isize(b, "*"))

\* RespFrame::expect_length: by the type prefix byte
RespFrameExpectLength(b) ==
    IF b = <<>> THEN Length("NotComplete", 0)
    ELSE IF b[1] = "$" THEN BulkStringExpectLength(b)
    ELSE IF b[1] = "*" THEN RespArrayExpectLength(b)
    ELSE Length("InvalidFrame", 0)

(***************************************************************************)
(* The per-type codec of src/resp: decode.  A result is the status, the    *)
(* frame and rest, the buffer as the call leaves it.                       *)
(***************************************************************************)
Failed(status, b) == [status |-> status, frame |-> NoFrame, rest |-> b]

Decoded(frame, b) == [status |-> "Ok", frame |-> frame, rest |-> b]

RECURSIVE RespFrameDecode(_)

\* BulkString::decode that forgets the CRLF after the data when it checks for completeness
BulkStringDecode_NoTrailer(b) ==
    LET Split(len, advanced) ==
            Decoded(BulkString(Take(advanced, len)), Drop(advanced, len + CRLF_LEN))
        Body(r) ==
            IF r.status # "Ok" THEN Failed(r.status, b)
            ELSE IF r.len = -1 THEN Decoded(NullBulkString, b)
            ELSE IF Len(b) - (r.end + CRLF_LEN) < r.len THEN Failed("NotComplete", b)
            ELSE Split(r.len, Drop(b, r.end + CRLF_LEN))
    IN Body(parse_length_isize(b, "$"))

BulkStringDecode(b) ==
    LET Split(len, advanced) ==
            Decoded(BulkString(Take(advanced, len)), Drop(advanced, len + CRLF_LEN))
        Body(r) ==
            IF r.status # "Ok" THEN Failed(r.status, b)
            ELSE IF r.len = -1 THEN Decoded(NullBulkString, b)
            ELSE IF Len(b) - (r.end + CRLF_LEN) < r.len + CRLF_LEN
                 THEN Failed("NotComplete", b)
            ELSE Split(r.len, Drop(b, r.end + CRLF_LEN))
    IN Body(parse_length_isize(b, "$"))

\* for _ in 0..len { frames.push(RespFrame::decode(buf)?) }
RECURSIVE DecodeElems(_, _, _)
DecodeElems(b, n, frames) ==
    LET Push(r) ==
            IF r.status # "Ok" THEN Failed(r.status, r.rest)
            ELSE DecodeElems(r.rest, n - 1, Append(frames, r.frame))
    IN IF n = 0 THEN Decoded(RespArray(frames), b)
       ELSE Push(RespFrameDecode(b))

RespArrayDecode(b) ==
    LET Elems(r, total) ==
            IF total.status # "Ok" THEN Failed(total.status, b)
            ELSE IF Len(b) < total.n THEN Failed("NotComplete", b)
            ELSE DecodeElems(Drop(b, r.end + CRLF_LEN), r.len, <<>>)
        Body(r) ==
            IF r.status # "Ok" THEN Failed(r.status, b)
            ELSE IF r.len = -1 THEN Decoded(NullArray, b)
            ELSE Elems(r, calc_total_length(b, r.end, r.len, "*"))
    IN Body(parse_length_isize(b, "*"))

\* RespFrame::decode: by the type prefix byte
RespFrameDecode(b) ==
    IF b = <<>> THEN Failed("NotComplete", b)
    ELSE IF b[1] = "$" THEN BulkStringDecode(b)
    ELSE IF b[1] = "*" THEN RespArrayDecode(b)
    ELSE Failed("InvalidFrame", b)

(***************************************************************************)
(* The parser of src/respv2/parser.rs.  A parser takes the input slice and *)
(* returns ok with a value and the rest of the slice, or an error; cut     *)
(* marks winnow's ErrMode::Cut, which alt does not recover from.           *)
(***************************************************************************)
POk(val, rest) == [ok |-> TRUE, cut |-> FALSE, val |-> val, rest |-> rest]

PErr(cut, rest) == [ok |-> FALSE, cut |-> cut, val |-> NoFrame, rest |-> rest]

err_cut(rest) == PErr(TRUE, rest)

\* String::from_utf8_lossy: a byte that is no UTF-8 becomes U+FFFD (EF BF BD)
RECURSIVE Utf8Lossy(_)
Utf8Lossy(s) ==
    IF s = <<>> THEN <<>>
    ELSE (IF Head(s) = "xFF" THEN <<"xEF", "xBF", "xBD">> ELSE <<Head(s)>>)
         \o Utf8Lossy(Tail(s))

\* terminated(take_until(0.., CRLF), CRLF)
TakeUntilCRLF(i) ==
    LET Found(at) ==
            IF at = 0 THEN PErr(FALSE, i)
            ELSE POk(Take(i, at - 1), Drop(i, at + 1))
    IN Found(FindCRLF(i, 1))

parse_string(i) ==
    LET Lossy(r) == IF r.ok THEN POk(Utf8Lossy(r.val), r.rest) ELSE r
    IN Lossy(TakeUntilCRLF(i))

\* the length of the longest run of digits s starts with (digit1 takes it)
DigitRun(s) ==
    LET runs == {k \in 0..Len(s) : \A j \in 1..k : IsDigit(s[j])}
    IN CHOOSE k \in runs : \A m \in runs : m <= k

\* integer: opt(alt(('+', '-'))), then terminated(digit1.parse_to(), CRLF)
integer(i) ==
    LET Digits(sign, rest, k) ==
            IF k = 0 THEN PErr(FALSE, i)
            ELSE IF ~StartsWith(Drop(rest, k), CRLF) THEN PErr(FALSE, i)
            ELSE POk(sign * DigitsVal(Take(rest, k)), Drop(rest, k + CRLF_LEN))
        Signed(sign, rest) == Digits(sign, rest, DigitRun(rest))
    IN IF i # <<>> /\ i[1] = "+" THEN Signed(1, Tail(i))
       ELSE IF i # <<>> /\ i[1] = "-" THEN Signed(-1, Tail(i))
       ELSE Signed(1, i)

\* Null: "_\r\n"
null(i) == IF StartsWith(i, CRLF) THEN POk(RespNull, Drop(i, CRLF_LEN)) ELSE PErr(FALSE, i)

simple_string(i) ==
    LET Wrap(r) == IF r.ok THEN POk(SimpleString(r.val), r.rest) ELSE r
    IN Wrap(parse_string(i))

error(i) ==
    LET Wrap(r) == IF r.ok THEN POk(SimpleError(r.val), r.rest) ELSE r
    IN Wrap(parse_string(i))

MinusOne == <<"-", "1", CR, LF>>

\* Null bulk strings: "$-1\r\n"
null_bulk_string(i) ==
    IF StartsWith(i, MinusOne) THEN POk(NullBulkString, Drop(i, Len(MinusOne)))
    ELSE PErr(FALSE, i)

\* terminated(take(len), CRLF)
TakeThenCRLF(i, len) ==
    IF Len(i) >= len /\ StartsWith(Drop(i, len), CRLF)
    THEN POk(Take(i, len), Drop(i, len + CRLF_LEN))
    ELSE PErr(FALSE, i)

bulk_string(i) ==
    LET Data(r) == IF r.ok THEN POk(BulkString(r.val), r.rest) ELSE r
        Body(r) ==
            IF ~r.ok THEN r
            ELSE IF r.val = 0 THEN POk(BulkString(<<>>), r.rest)
            ELSE IF r.val < 0 THEN err_cut(r.rest)
            ELSE Data(TakeThenCRLF(r.rest, r.val))
    IN Body(integer(i))

bulk_string_len(i) ==
    LET Body(r) ==
            IF ~r.ok THEN r
            ELSE IF r.val = 0 \/ r.val = -1 THEN POk(<<>>, r.rest)
            ELSE IF r.val < 0 THEN err_cut(r.rest)
            ELSE TakeThenCRLF(r.rest, r.val)
    IN Body(integer(i))

\* "*-1\r\n"
null_array(i) ==
    IF StartsWith(i, MinusOne) THEN POk(NullArray, Drop(i, Len(MinusOne)))
    ELSE PErr(FALSE, i)

\* Booleans: "#<t|f>\r\n"
boolean(i) ==
    IF i # <<>> /\ i[1] \in {"t", "f"} THEN POk(Boolean(i[1] = "t"), Tail(i))
    ELSE PErr(FALSE, i)

\* terminated(float, CRLF), for the float literals the model's bytes can spell:
\* an optional sign and digits
double(i) ==
    LET Wrap(r) == IF r.ok THEN POk(Double(r.val), r.rest) ELSE r
    IN Wrap(integer(i))

\* alt((first, second)): the second parser runs on the same input when the first
\* fails without a cut
Alt(first, second) == IF first.ok \/ first.cut THEN first ELSE second

\* the byte order of the keys of a BTreeMap<String, _>
ByteOrder ==
    <<LF, CR, "!", "#", "$", "%", "*", "+", ",", "-",
      "0", "1", "2", "3", "4", "5", "6", "7", "8", "9", ":",
      "A", "B", "C", "D", "E", "F", "G", "H", "I", "L", "M", "O", "R", "S", "T",
      "_", "a", "b", "c", "d", "e", "f", "g", "h", "i", "k", "l", "m", "o", "r", "s", "t",
      "v", "x", "xBD", "xBF", "xEF", "xFF">>

ByteRank(c) == CHOOSE r \in 1..Len(ByteOrder) : ByteOrder[r] = c

RECURSIVE KeyLess(_, _)
KeyLess(a, c) ==
    IF c = <<>> THEN FALSE
    ELSE IF a = <<>> THEN TRUE
    ELSE IF Head(a) = Head(c) THEN KeyLess(Tail(a), Tail(c))
    ELSE ByteRank(Head(a)) < ByteRank(Head(c))

\* BTreeMap::insert: the pairs stay in key order; a key already there takes the new value
RECURSIVE MapInsert(_, _, _)
MapInsert(pairs, key, value) ==
    IF pairs = <<>> THEN <<<<key, value>>>>
    ELSE IF Head(pairs)[1] = key THEN <<<<key, value>>>> \o Tail(pairs)
    ELSE IF KeyLess(key, Head(pairs)[1]) THEN <<<<key, value>>>> \o pairs
    ELSE <<Head(pairs)>> \o MapInsert(Tail(pairs), key, value)

RECURSIVE parse_frame(_)

RECURSIVE parse_frame_len(_)

\* for _ in 0..len { frames.push(parse_frame(input)?) }
RECURSIVE ArrayElems(_, _, _)
ArrayElems(i, n, frames) ==
    LET Push(r) ==
            IF ~r.ok THEN r
            ELSE ArrayElems(r.rest, n - 1, Append(frames, r.val))
    IN IF n = 0 THEN POk(RespArray(frames), i)
       ELSE Push(parse_frame(i))

array(i) ==
    LET Body(r) ==
            IF ~r.ok THEN r
            ELSE IF r.val = 0 THEN POk(RespArray(<<>>), r.rest)
            ELSE IF r.val < 0 THEN err_cut(r.rest)
            ELSE ArrayElems(r.rest, r.val, <<>>)
    IN Body(integer(i))

\* for _ in 0..len { parse_frame_len(input)? }
RECURSIVE ArrayElemsLen(_, _)
ArrayElemsLen(i, n) ==
    LET Skip(r) == IF ~r.ok THEN r ELSE ArrayElemsLen(r.rest, n - 1)
    IN IF n = 0 THEN POk(<<>>, i)
       ELSE Skip(parse_frame_len(i))

array_len(i) ==
    LET Body(r) ==
            IF ~r.ok THEN r
            ELSE IF r.val = 0 \/ r.val = -1 THEN POk(<<>>, r.rest)
            ELSE IF r.val < 0 THEN err_cut(r.rest)
            ELSE ArrayElemsLen(r.rest, r.val)
    IN Body(integer(i))

\* for _ in 0..len { key = preceded('+', parse_string); value = parse_frame; insert }
RECURSIVE MapPairs(_, _, _)
MapPairs(i, n, pairs) ==
    LET Value(key, r) ==
            IF ~r.ok THEN r
            ELSE MapPairs(r.rest, n - 1, MapInsert(pairs, key, r.val))
        Key(r) == IF ~r.ok THEN r ELSE Value(r.val, parse_frame(r.rest))
    IN IF n = 0 THEN POk(RespMap(pairs), i)
       ELSE IF i # <<>> /\ i[1] = "+" THEN Key(parse_string(Tail(i)))
       ELSE PErr(FALSE, i)

map(i) ==
    LET Body(r) ==
            IF ~r.ok THEN r
            ELSE IF r.val <= 0 THEN err_cut(r.rest)
            ELSE MapPairs(r.rest, r.val \div 2, <<>>)
    IN Body(integer(i))

\* for _ in 0..len { terminated(take_until(0.., CRLF), CRLF); parse_frame_len }
RECURSIVE MapPairsLen(_, _)
MapPairsLen(i, n) ==
    LET Value(r) == IF ~r.ok THEN r ELSE MapPairsLen(r.rest, n - 1)
        Key(r) == IF ~r.ok THEN r ELSE Value(parse_frame_len(r.rest))
    IN IF n = 0 THEN POk(<<>>, i)
       ELSE Key(TakeUntilCRLF(i))

map_len(i) ==
    LET Body(r) ==
            IF ~r.ok THEN r
            ELSE IF r.val <= 0 THEN err_cut(r.rest)
            ELSE MapPairsLen(r.rest, r.val \div 2)
    IN Body(integer(i))

IntegerFrame(i) ==
    LET Wrap(r) == IF r.ok THEN POk(Integer(r.val), r.rest) ELSE r
    IN Wrap(integer(i))

\* dispatch! { any; ... }: the first byte picks the parser of what follows it
parse_frame(i) ==
    IF i = <<>> THEN PErr(FALSE, i)
    ELSE CASE i[1] = "+" -> simple_string(Tail(i))
           [] i[1] = "-" -> error(Tail(i))
           [] i[1] = ":" -> IntegerFrame(Tail(i))
           [] i[1] = "$" -> Alt(null_bulk_string(Tail(i)), bulk_string(Tail(i)))
           [] i[1] = "*" -> Alt(null_array(Tail(i)), array(Tail(i)))
           [] i[1] = "_" -> null(Tail(i))
           [] i[1] = "#" -> boolean(Tail(i))
           [] i[1] = "," -> double(Tail(i))
           [] i[1] = "%" -> map(Tail(i))
           [] OTHER -> PErr(FALSE, Tail(i))

parse_frame_len(i) ==
    IF i = <<>> THEN PErr(FALSE, i)
    ELSE CASE i[1] \in {"+", "-", ":", "_", "#", ","} -> TakeUntilCRLF(Tail(i))
           [] i[1] = "$" -> bulk_string_len(Tail(i))
           [] i[1] = "*" -> array_len(Tail(i))
           [] i[1] = "%" -> map_len(Tail(i))
           [] OTHER -> PErr(FALSE, Tail(i))

\* Ok(the bytes parse_frame_len went over), and NotComplete for every error
parse_frame_length(input) ==
    LET Measure(r) ==
            IF r.ok THEN Length("Ok", Len(input) - Len(r.rest))
            ELSE Length("NotComplete", 0)
    IN Measure(parse_frame_len(input))

(***************************************************************************)
(* The command layer of src/cmd: construction.  A constructed command is   *)
(* its status, its variant (kind) and the variant's fields in order.       *)
(***************************************************************************)
LowerCase == <<"a", "b", "c", "d", "e", "f", "g", "h", "i", "l", "m", "o", "r", "s", "t">>

UpperCase == <<"A", "B", "C", "D", "E", "F", "G", "H", "I", "L", "M", "O", "R", "S", "T">>

IsUpper(c) == \E i \in 1..Len(UpperCase) : UpperCase[i] = c

\* u8::to_ascii_lowercase
ToLower(c) ==
    IF IsUpper(c) THEN LowerCase[CHOOSE i \in 1..Len(UpperCase) : UpperCase[i] = c] ELSE c

to_ascii_lowercase(bytes) == [i \in 1..Len(bytes) |-> ToLower(bytes[i])]

\* String::from_utf8 fails on a byte sequence that is no UTF-8
ValidUtf8(bytes) == \A i \in 1..Len(bytes) : bytes[i] # "xFF"

CmdOk(kind, args) == [status |-> "Ok", kind |-> kind, args |-> args]

CmdErr(status) == [status |-> status, kind |-> "none", args |-> <<>>]

\* Deref for RespArray: a null array reads as the empty vector
Items(value) == IF value.null THEN <<>> ELSE value.data

\* AsRef<[u8]> for BulkString: a null bulk string reads as no bytes
AsBytes(bulk) == IF bulk.null THEN <<>> ELSE bulk.data

RECURSIVE NamesMatch(_, _, _)
NamesMatch(items, names, i) ==
    IF i > Len(names) THEN "Ok"
    ELSE IF i > Len(items) THEN "Panic"
    ELSE IF items[i].type # "BulkString" THEN "InvalidCommand"
    ELSE IF items[i].null THEN "InvalidCommand"
    ELSE IF to_ascii_lowercase(AsBytes(items[i])) # names[i] THEN "InvalidCommand"
    ELSE NamesMatch(items, names, i + 1)

validate_command_name(value, names) == NamesMatch(Items(value), names, 1)

\* validate_command that only refuses an array that is too short
validate_command_TooLong(value, names, n_args) ==
    IF Len(Items(value)) < n_args + Len(names) THEN "InvalidArgument"
    ELSE validate_command_name(value, names)

validate_command(value, names, n_args) ==
    IF Len(Items(value)) # n_args + Len(names) THEN "InvalidArgument"
    ELSE validate_command_name(value, names)

validate_command_at_least(value, names, n_args) ==
    IF Len(Items(value)) < n_args + Len(names) THEN "InvalidArgument"
    ELSE validate_command_name(value, names)

extract_args(value, start) ==
    IF value.null THEN [status |-> "InvalidArgument", args |-> <<>>]
    ELSE [status |-> "Ok", args |-> Drop(value.data, start)]

\* BulkString::get_data
get_data(bulk) ==
    IF bulk.null THEN [status |-> "RespError", data |-> <<>>]
    ELSE [status |-> "Ok", data |-> bulk.data]

Name_echo == <<"e", "c", "h", "o">>

Name_sadd == <<"s", "a", "d", "d">>

Name_sismember == <<"s", "i", "s", "m", "e", "m", "b", "e", "r">>

Name_get == <<"g", "e", "t">>

Name_set == <<"s", "e", "t">>

Name_hget == <<"h", "g", "e", "t">>

Name_hset == <<"h", "s", "e", "t">>

Name_hgetall == <<"h", "g", "e", "t", "a", "l", "l">>

Name_hmget == <<"h", "m", "g", "e", "t">>

\* the (name, variant) pairs of the match in TryFrom<RespArray> for Command, in its order
CommandNames ==
    << <<Name_get, "Get">>, <<Name_set, "Set">>, <<Name_hget, "HGet">>,
       <<Name_hset, "HSet">>, <<Name_hgetall, "HGetAll">>, <<Name_hmget, "HMGet">>,
       <<Name_echo, "Echo">>, <<Name_sadd, "SAdd">>, <<Name_sismember, "SisMember">> >>

\* TryFrom<RespArray> for Echo
EchoTryFrom(value) ==
    LET Message(d) ==
            IF d.status # "Ok" THEN CmdErr(d.status)
            ELSE IF ~ValidUtf8(d.data) THEN CmdErr("Utf8Error")
            ELSE CmdOk("Echo", <<d.data>>)
        Args(a) ==
            IF a.status # "Ok" THEN CmdErr(a.status)
            ELSE IF Len(a.args) >= 1 /\ a.args[1].type = "BulkString"
                 THEN Message(get_data(a.args[1]))
            ELSE CmdErr("InvalidArgument")
        Checked(v) == IF v # "Ok" THEN CmdErr(v) ELSE Args(extract_args(value, 1))
    IN Checked(validate_command(value, <<Name_echo>>, 1))

\* the text of a BulkString argument taken by its field 0 (String::from_utf8(key.0)):
\* a null bulk string has no bytes to convert
TextOf(bulk) ==
    IF bulk.null THEN "InvalidArgument"
    ELSE IF ~ValidUtf8(bulk.data) THEN "Utf8Error"
    ELSE "Ok"

\* TryFrom<RespArray> for SAdd and for SisMember: the name, then key and member
KeyMemberTryFrom(value, name, kind) ==
    LET Args(a) ==
            IF a.status # "Ok" THEN CmdErr(a.status)
            ELSE IF Len(a.args) >= 2 /\ a.args[1].type = "BulkString"
                    /\ a.args[2].type = "BulkString"
                 THEN IF TextOf(a.args[1]) # "Ok" THEN CmdErr(TextOf(a.args[1]))
                      ELSE IF TextOf(a.args[2]) # "Ok" THEN CmdErr(TextOf(a.args[2]))
                      ELSE CmdOk(kind, <<a.args[1].data, a.args[2].data>>)
            ELSE CmdErr("InvalidArgument")
        Checked(v) == IF v # "Ok" THEN CmdErr(v) ELSE Args(extract_args(value, 1))
    IN Checked(validate_command(value, <<name>>, 2))

SAddTryFrom(value) == KeyMemberTryFrom(value, Name_sadd, "SAdd")

SisMemberTryFrom(value) == KeyMemberTryFrom(value, Name_sismember, "SisMember")

\* the constructors of the string and hash commands: the name and the arity, then
\* the leading n_text arguments as text and the rest as raw frames
TextArgsOk(args, n_text) ==
    \A i \in 1..n_text : args[i].type = "BulkString" /\ TextOf(args[i]) = "Ok"

TextArgsUtf8(args, n_text) ==
    \A i \in 1..n_text : args[i].type = "BulkString" /\ ~args[i].null

Fields(args, n_text) ==
    [i \in 1..Len(args) |-> IF i <= n_text THEN args[i].data ELSE args[i]]

TypedTryFrom(value, name, kind, n_args, n_text, at_least) ==
    LET Args(a) ==
            IF a.status # "Ok" THEN CmdErr(a.status)
            ELSE IF TextArgsOk(a.args, IF at_least THEN Len(a.args) ELSE n_text)
                 THEN CmdOk(kind, Fields(a.args, IF at_least THEN Len(a.args) ELSE n_text))
            ELSE IF TextArgsUtf8(a.args, IF at_least THEN Len(a.args) ELSE n_text)
                 THEN CmdErr("Utf8Error")
            ELSE CmdErr("InvalidArgument")
        Checked(v) == IF v # "Ok" THEN CmdErr(v) ELSE Args(extract_args(value, 1))
    IN Checked(IF at_least THEN validate_command_at_least(value, <<name>>, n_args)
               ELSE validate_command(value, <<name>>, n_args))

GetTryFrom(value) == TypedTryFrom(value, Name_get, "Get", 1, 1, FALSE)

SetTryFrom(value) == TypedTryFrom(value, Name_set, "Set", 2, 1, FALSE)

HGetTryFrom(value) == TypedTryFrom(value, Name_hget, "HGet", 2, 2, FALSE)

HSetTryFrom(value) == TypedTryFrom(value, Name_hset, "HSet", 3, 2, FALSE)

HGetAllTryFrom(value) == TypedTryFrom(value, Name_hgetall, "HGetAll", 1, 1, FALSE)

HMGetTryFrom(value) == TypedTryFrom(value, Name_hmget, "HMGet", 2, 2, TRUE)

\* TryFrom<RespArray> for Command whose match has no default arm for other names
CommandTryFrom_RejectUnknown(v) ==
    LET ByName(name) ==
            CASE name = Name_get -> GetTryFrom(v)
              [] name = Name_set -> SetTryFrom(v)
              [] name = Name_hget -> HGetTryFrom(v)
              [] name = Name_hset -> HSetTryFrom(v)
              [] name = Name_hgetall -> HGetAllTryFrom(v)
              [] name = Name_hmget -> HMGetTryFrom(v)
              [] name = Name_echo -> EchoTryFrom(v)
              [] name = Name_sadd -> SAddTryFrom(v)
              [] name = Name_sismember -> SisMemberTryFrom(v)
              [] OTHER -> CmdErr("InvalidCommand")
    IN IF Items(v) # <<>> /\ Items(v)[1].type = "BulkString"
       THEN ByName(AsBytes(Items(v)[1]))
       ELSE CmdErr("InvalidCommand")

\* TryFrom<RespArray> for Command: the first element's bytes against the names
CommandTryFrom(v) ==
    LET ByName(name) ==
            CASE name = Name_get -> GetTryFrom(v)
              [] name = Name_set -> SetTryFrom(v)
              [] name = Name_hget -> HGetTryFrom(v)
              [] name = Name_hset -> HSetTryFrom(v)
              [] name = Name_hgetall -> HGetAllTryFrom(v)
              [] name = Name_hmget -> HMGetTryFrom(v)
              [] name = Name_echo -> EchoTryFrom(v)
              [] name = Name_sadd -> SAddTryFrom(v)
              [] name = Name_sismember -> SisMemberTryFrom(v)
              [] OTHER -> CmdOk("Unrecognized", <<>>)
    IN IF Items(v) # <<>> /\ Items(v)[1].type = "BulkString"
       THEN ByName(AsBytes(Items(v)[1]))
       ELSE CmdErr("InvalidCommand")

\* TryFrom<RespFrame> for Command that takes a frame of any type for a command
CommandTryFromFrame_AnyFrame(frame) ==
    IF frame.type = "Array" THEN CommandTryFrom(frame) ELSE CmdOk("Unrecognized", <<>>)

\* TryFrom<RespFrame> for Command
CommandTryFromFrame(frame) ==
    IF frame.type = "Array" THEN CommandTryFrom(frame) ELSE CmdErr("InvalidCommand")

(***************************************************************************)
(* The backend store and the execution of a command.  A keyspace is a      *)
(* function from the keys written so far: map to frames, hmap to the       *)
(* (field, value) pairs in insertion order, set to sets of members.        *)
(***************************************************************************)
RESP_OK == SimpleString(<<"O", "K">>)

backend_sadd(store, key, member) ==
    IF key \in DOMAIN store.set
    THEN [store EXCEPT !.set = [@ EXCEPT ![key] = @ \cup {member}]]
    ELSE [store EXCEPT !.set = @ @@ (key :> {member})]

backend_sismember(store, key, member) ==
    IF key \in DOMAIN store.set THEN member \in store.set[key] ELSE FALSE

\* a get that falls back to the set keyspace for a key the string keyspace lacks
backend_get_AnyKeyspace(store, key) ==
    IF key \in DOMAIN store.map THEN store.map[key]
    ELSE IF key \in DOMAIN store.set THEN RespArray(<<>>)
    ELSE RespNull

backend_get(store, key) ==
    IF key \in DOMAIN store.map THEN store.map[key] ELSE RespNull

backend_set(store, key, value) ==
    IF key \in DOMAIN store.map
    THEN [store EXCEPT !.map = [@ EXCEPT ![key] = value]]
    ELSE [store EXCEPT !.map = @ @@ (key :> value)]

HashOf(store, key) == IF key \in DOMAIN store.hmap THEN store.hmap[key] ELSE <<>>

backend_hget(store, key, field) ==
    LET pairs == HashOf(store, key)
        at == {i \in 1..Len(pairs) : pairs[i][1] = field}
    IN IF at = {} THEN RespNull ELSE pairs[CHOOSE i \in at : TRUE][2]

backend_hset(store, key, field, value) ==
    LET pairs == HashOf(store, key)
        at == {i \in 1..Len(pairs) : pairs[i][1] = field}
        put == IF at = {} THEN Append(pairs, <<field, value>>)
               ELSE [pairs EXCEPT ![CHOOSE i \in at : TRUE] = <<field, value>>]
    IN IF key \in DOMAIN store.hmap
       THEN [store EXCEPT !.hmap = [@ EXCEPT ![key] = put]]
       ELSE [store EXCEPT !.hmap = @ @@ (key :> put)]

RECURSIVE Alternate(_)
Alternate(pairs) ==
    IF pairs = <<>> THEN <<>>
    ELSE <<BulkString(Head(pairs)[1]), Head(pairs)[2]>> \o Alternate(Tail(pairs))

Executed(reply, store) == [reply |-> reply, store |-> store]

\* Echo's execute that answers an empty message with the null bulk string
ExecuteEcho_NullWhenEmpty(c, store) ==
    Executed(IF c.args[1] = <<>> THEN NullBulkString ELSE BulkString(c.args[1]), store)

ExecuteEcho(c, store) == Executed(BulkString(c.args[1]), store)

\* SAdd's execute that reports 0 for a member that was already present
ExecuteSAdd_ReportsAdded(c, store) ==
    Executed(Integer(IF backend_sismember(store, c.args[1], c.args[2]) THEN 0 ELSE 1),
             backend_sadd(store, c.args[1], c.args[2]))

ExecuteSAdd(c, store) == Executed(Integer(1), backend_sadd(store, c.args[1], c.args[2]))

\* SisMember's execute that leaves an empty set behind at a key that had none
ExecuteSisMember_CreatesEntry(c, store) ==
    Executed(Integer(IF backend_sismember(store, c.args[1], c.args[2]) THEN 1 ELSE 0),
             IF c.args[1] \in DOMAIN store.set THEN store
             ELSE [store EXCEPT !.set = @ @@ (c.args[1] :> {})])

\* SisMember's execute that asks only whether the key holds a set
ExecuteSisMember_AnyMember(c, store) ==
    Executed(Integer(IF c.args[1] \in DOMAIN store.set THEN 1 ELSE 0), store)

ExecuteSisMember(c, store) ==
    Executed(Integer(IF backend_sismember(store, c.args[1], c.args[2]) THEN 1 ELSE 0), store)

ExecuteUnrecognized(c, store) == Executed(RESP_OK, store)

\* the string and hash commands
ExecuteStored(c, store) ==
    CASE c.kind = "Get" -> Executed(backend_get(store, c.args[1]), store)
      [] c.kind = "Set" -> Executed(RESP_OK, backend_set(store, c.args[1], c.args[2]))
      [] c.kind = "HGet" -> Executed(backend_hget(store, c.args[1], c.args[2]), store)
      [] c.kind = "HSet" ->
            Executed(RESP_OK, backend_hset(store, c.args[1], c.args[2], c.args[3]))
      [] c.kind = "HGetAll" -> Executed(RespArray(Alternate(HashOf(store, c.args[1]))), store)
      [] c.kind = "HMGet" ->
            Executed(RespArray([i \in 1..(Len(c.args) - 1) |->
                                    backend_hget(store, c.args[1], c.args[i + 1])]),
                     store)

\* CommandExecutor::execute, dispatched by variant
Execute(c, store) ==
    CASE c.kind = "Echo" -> ExecuteEcho(c, store)
      [] c.kind = "SAdd" -> ExecuteSAdd(c, store)
      [] c.kind = "SisMember" -> ExecuteSisMember(c, store)
      [] c.kind = "Unrecognized" -> ExecuteUnrecognized(c, store)
      [] OTHER -> ExecuteStored(c, store)

(***************************************************************************)
(* The frames a client sends in the model, and byte streams that are not   *)
(* frames.                                                                 *)
(***************************************************************************)
DataBytes == {"a"}

RECURSIVE SeqsUpTo(_, _)
SeqsUpTo(S, n) ==
    IF n = 0 THEN {<<>>}
    ELSE LET shorter == SeqsUpTo(S, n - 1)
         IN shorter \cup {Append(s, x) : s \in {t \in shorter : Len(t) = n - 1}, x \in S}

BulkFrames == {NullBulkString} \cup {BulkString(d) : d \in SeqsUpTo(DataBytes, MaxData)}

\* the arrays that occur as elements: null, empty, and one holding a bulk string
InnerArrays == {NullArray, RespArray(<<>>), RespArray(<<BulkString(<<"a">>)>>)}

ArrayFrames == {NullArray} \cup {RespArray(e) : e \in SeqsUpTo(BulkFrames \cup InnerArrays, MaxElems)}

CodecFrames == BulkFrames \cup ArrayFrames

\* length tokens that declare a negative length other than -1, and other non-frames
Malformed ==
    { <<"$", "-", "2", CR, LF>>,
      <<"*", "-", "5", CR, LF>>,
      <<"*", "1", CR, LF, "$", "-", "2", CR, LF>>,
      <<"$", "a", CR, LF>> }

Prefixes(s) == {Take(s, k) : k \in 0..Len(s)}

\* the frames the parser is tried on: every type whose encoder is known
ParserLeaves ==
    BulkFrames \cup {Boolean(TRUE), Boolean(FALSE), RespNull, SimpleString(<<"a">>)}

ParserFrames ==
    ParserLeaves \cup {NullArray} \cup {RespArray(e) : e \in SeqsUpTo(ParserLeaves, MaxElems)}

\* wire forms given byte by byte: integers, a double, an error, maps, and streams
\* that are no frame
ParserRaw ==
    { <<":", "1", CR, LF>>,
      <<":", "-", "2", CR, LF>>,
      <<":", "a", CR, LF>>,
      <<",", "1", CR, LF>>,
      <<"-", "e", CR, LF>>,
      <<"+", "xFF", CR, LF>>,
      <<"%", "2", CR, LF, "+", "k", CR, LF, "_", CR, LF>>,
      <<"%", "4", CR, LF, "+", "k", CR, LF, "_", CR, LF, "+", "a", CR, LF, "#", "t", CR, LF>>,
      <<"%", "4", CR, LF, "+", "k", CR, LF, "_", CR, LF, "+", "k", CR, LF, ":", "1", CR, LF>>,
      <<"%", "4", CR, LF, "+", "a", CR, LF, "_", CR, LF, "+", "k", CR, LF, ":", "1", CR, LF>>,
      <<"%", "2", CR, LF, "k", CR, LF, "_", CR, LF>>,
      <<"%", "3", CR, LF, "+", "k", CR, LF, "_", CR, LF>>,
      <<"%", "1", CR, LF>>,
      <<"%", "0", CR, LF>>,
      <<"%", "-", "2", CR, LF>>,
      <<"!", CR, LF>>,
      <<"#", "x", CR, LF>>,
      <<"$", "-", "2", CR, LF>>,
      <<"*", "-", "5", CR, LF>>,
      <<"*", "1", CR, LF, "$", "-", "2", CR, LF>>,
      <<"$", "2", CR, LF, "a", CR, LF>> }

ParserInputs ==
    UNION {Prefixes(RespFrameEncode(f)) : f \in ParserFrames}
        \cup UNION {Prefixes(r) : r \in ParserRaw}

\* every upper/lower-case spelling of a name
RECURSIVE Spellings(_)
Spellings(name) ==
    IF name = <<>> THEN {<<>>}
    ELSE {<<c>> \o r : c \in {Head(name), UpperCase[CHOOSE i \in 1..Len(LowerCase) :
                                                         LowerCase[i] = Head(name)]},
                       r \in Spellings(Tail(name))}

ArgK == BulkString(<<"k">>)

ArgM == BulkString(<<"m">>)

\* the first n arguments a command is sent with in the model: k, m, k, ...
CanonArgs(n) == [i \in 1..n |-> IF i % 2 = 1 THEN ArgK ELSE ArgM]

\* the arguments a well-formed command of each name is sent with
ArgsOf(name) ==
    CASE name \in {Name_get, Name_hgetall, Name_echo} -> CanonArgs(1)
      [] name = Name_hset -> CanonArgs(3)
      [] OTHER -> CanonArgs(2)

KnownNames == {CommandNames[i][1] : i \in 1..Len(CommandNames)}

UnknownNames == {<<"F", "O", "O">>, <<"f", "o", "o">>, <<"g", "e", "t", "s">>, <<>>}

\* the frames a command is constructed from in the model
SpelledInputs ==
    UNION {{RespArray(<<BulkString(sp)>> \o ArgsOf(name)) : sp \in Spellings(name)} :
              name \in KnownNames}

ArityInputs ==
    {RespArray(<<BulkString(name)>> \o a) :
        name \in KnownNames \cup UnknownNames, a \in {CanonArgs(n) : n \in 0..MaxArgs}}

SetInputs ==
    {RespArray(<<BulkString(name), k, m>>) :
        name \in {Name_sadd, Name_sismember}, k \in {ArgK, ArgM}, m \in {ArgK, ArgM}}

OddArgs == {NullBulkString, BulkString(<<"xFF">>), RespNull}

OddInputs ==
    {RespArray(<<BulkString(name), a>>) : name \in {Name_echo, Name_get}, a \in OddArgs}
        \cup {RespArray(<<BulkString(Name_echo), BulkString(<<>>)>>)}
        \cup {RespArray(<<BulkString(name), ArgK, c>>) :
                name \in {Name_sadd, Name_sismember}, c \in OddArgs}
        \cup {RespArray(<<BulkString(name), a, ArgM>>) :
                name \in {Name_sadd, Name_sismember}, a \in OddArgs}
        \cup {RespArray(<<first>> \o a) :
                first \in {NullBulkString, RespNull, SimpleString(Name_get)},
                a \in SeqsUpTo({ArgK}, 1)}
        \cup {NullArray, RespArray(<<>>), ArgK, RespNull}

\* leading elements offered to validate_command: right and wrong name tokens
NameTokens ==
    { <<>>,
      <<BulkString(Name_echo)>>,
      <<BulkString(<<"E", "c", "H", "o">>)>>,
      <<BulkString(Name_get)>>,
      <<NullBulkString>>,
      <<RespNull>>,
      <<BulkString(Name_echo), BulkString(<<"G", "E", "T">>)>>,
      <<BulkString(Name_echo), NullBulkString>>,
      <<BulkString(Name_echo), RespNull>> }

ValidateInputs ==
    {NullArray} \cup {RespArray(t \o CanonArgs(n)) : t \in NameTokens, n \in 0..MaxArgs}

NameLists == {<<>>, <<Name_echo>>, <<Name_echo, Name_get>>}

CmdInputs == SpelledInputs \cup ArityInputs \cup SetInputs \cup OddInputs

NoResult ==
    [op |-> "none", status |-> "none", frame |-> NoFrame, before |-> <<>>, rest |-> <<>>]

NoScan == [op |-> "none", status |-> "none", n |-> 0, input |-> <<>>]

NoCmd == [status |-> "none", kind |-> "none", args |-> <<>>, input |-> NoFrame]

EmptyBackend == [map |-> <<>>, hmap |-> <<>>, set |-> <<>>]

Conns == 1..MaxConns

\* a connection that is executing no command
Idle ==
    [pc |-> "idle", cmd |-> CmdErr("none"), local |-> {}, reply |-> NoFrame,
     must |-> FALSE, during |-> FALSE]

\* the commands the connections execute on one key: two members to add and to ask for
ConcCommands ==
    {CmdOk(kind, <<ArgK.data, m>>) : kind \in {"SAdd", "SisMember"}, m \in {ArgK.data, ArgM.data}}

\* the frames a client sends after an earlier frame was decoded from the buffer
NextFrames == {BulkString(<<"a">>), RespArray(<<BulkString(<<"a">>)>>)}

\* sent is the encoding the client is streaming, whether it is still streaming or
\* was decoded, and whether an earlier frame was decoded from the same buffer
NoSent == [enc |-> <<>>, state |-> "none", earlier |-> FALSE]

Init ==
    /\ buf = <<>>
    /\ wire = <<>>
    /\ scan = NoScan
    /\ last = NoResult
    /\ backend = EmptyBackend
    /\ cmd = NoCmd
    /\ executed = {}
    /\ conns = [c \in Conns |-> Idle]
    /\ sent = NoSent

(***************************************************************************)
(* The connection: a client puts the encoding of a frame on the wire, the  *)
(* transport appends what has arrived to the buffer (extend_from_slice),   *)
(* and the codec is tried on the buffer.                                   *)
(***************************************************************************)
Send ==
    /\ wire = <<>>
    /\ buf = <<>>
    /\ \E f \in CodecFrames :
          /\ wire' = RespFrameEncode(f)
          /\ sent' = [enc |-> RespFrameEncode(f), state |-> "streaming", earlier |-> FALSE]
    /\ scan' = NoScan
    /\ last' = NoResult
    /\ UNCHANGED <<buf, backend, cmd, executed, conns>>

\* the client sends its next frame once the connection has decoded the first
SendNext ==
    /\ wire = <<>>
    /\ sent.state \in {"decoded", "extra"}
    /\ ~sent.earlier
    /\ \E f \in NextFrames :
          /\ wire' = RespFrameEncode(f)
          /\ sent' = [enc |-> RespFrameEncode(f), state |-> "streaming", earlier |-> TRUE]
    /\ scan' = NoScan
    /\ last' = NoResult
    /\ UNCHANGED <<buf, backend, cmd, executed, conns>>

SendRaw ==
    /\ wire = <<>>
    /\ buf = <<>>
    /\ \E bytes \in Malformed :
          /\ wire' = bytes
          /\ sent' = [enc |-> bytes, state |-> "raw", earlier |-> FALSE]
    /\ scan' = NoScan
    /\ last' = NoResult
    /\ UNCHANGED <<buf, backend, cmd, executed, conns>>

Recv(n) ==
    /\ n <= Len(wire)
    /\ Len(buf) + n <= MaxBuf
    /\ buf' = buf \o Take(wire, n)
    /\ wire' = Drop(wire, n)
    /\ scan' = NoScan
    /\ last' = NoResult
    /\ UNCHANGED <<backend, cmd, executed, conns, sent>>

\* a decode that returns a frame delivers the frame the client is streaming; a
\* decode tried after that belongs to no frame of the client
Delivered(status) ==
    IF sent.state = "streaming" /\ status = "Ok" THEN [sent EXCEPT !.state = "decoded"]
    ELSE IF sent.state = "decoded" THEN [sent EXCEPT !.state = "extra"]
    ELSE sent

\* the decoder is chosen by the type the caller expects next
Expects(b, prefix) == IF b = <<>> THEN TRUE ELSE b[1] = prefix

BulkDecode ==
    /\ Expects(buf, "$")
    /\ \E r \in {BulkStringDecode(buf)} :
          /\ buf' = r.rest
          /\ last' = [op |-> "BulkString::decode", status |-> r.status,
                      frame |-> r.frame, before |-> buf, rest |-> r.rest]
          /\ sent' = Delivered(r.status)
    /\ UNCHANGED <<wire, scan, backend, cmd, executed, conns>>

ArrayDecode ==
    /\ Expects(buf, "*")
    /\ \E r \in {RespArrayDecode(buf)} :
          /\ buf' = r.rest
          /\ last' = [op |-> "RespArray::decode", status |-> r.status,
                      frame |-> r.frame, before |-> buf, rest |-> r.rest]
          /\ sent' = Delivered(r.status)
    /\ UNCHANGED <<wire, scan, backend, cmd, executed, conns>>

BulkExpectLength ==
    /\ Expects(buf, "$")
    /\ \E r \in {BulkStringExpectLength(buf)} :
          scan' = [op |-> "BulkString::expect_length", status |-> r.status,
                   n |-> r.n, input |-> buf]
    /\ UNCHANGED <<buf, wire, last, backend, cmd, executed, conns, sent>>

ArrayExpectLength ==
    /\ Expects(buf, "*")
    /\ \E r \in {RespArrayExpectLength(buf)} :
          scan' = [op |-> "RespArray::expect_length", status |-> r.status,
                   n |-> r.n, input |-> buf]
    /\ UNCHANGED <<buf, wire, last, backend, cmd, executed, conns, sent>>

(***************************************************************************)
(* The parser on a buffered slice: the length-only scan, then the parse.   *)
(* Both read the slice and leave the buffer alone.                         *)
(***************************************************************************)
Feed ==
    /\ buf = <<>>
    /\ scan = NoScan
    /\ last = NoResult
    /\ \E i \in ParserInputs : buf' = i
    /\ scan' = NoScan
    /\ last' = NoResult
    /\ UNCHANGED <<wire, backend, cmd, executed, conns, sent>>

ParseFrameLength ==
    /\ \E r \in {parse_frame_length(buf)} :
          scan' = [op |-> "parse_frame_length", status |-> r.status,
                   n |-> r.n, input |-> buf]
    /\ UNCHANGED <<buf, wire, last, backend, cmd, executed, conns, sent>>

ParseFrame ==
    /\ \E r \in {parse_frame(buf)} :
          last' = [op |-> "parse_frame",
                   status |-> IF r.ok THEN "Ok" ELSE IF r.cut THEN "Cut" ELSE "Backtrack",
                   frame |-> r.val, before |-> buf, rest |-> r.rest]
    /\ UNCHANGED <<buf, wire, scan, backend, cmd, executed, conns, sent>>

NextParser ==
    \/ Feed
    \/ ParseFrameLength
    \/ ParseFrame

SpecParser == Init /\ [][NextParser]_vars

(***************************************************************************)
(* The command layer on a connection: a decoded frame becomes a command,   *)
(* the command is executed against the backend, and the reply (or the      *)
(* construction error) is handed back.                                     *)
(***************************************************************************)
Construct ==
    /\ cmd = NoCmd
    /\ last = NoResult
    /\ \E v \in CmdInputs :
          \E c \in {CommandTryFromFrame(v)} :
             cmd' = [status |-> c.status, kind |-> c.kind, args |-> c.args, input |-> v]
    /\ UNCHANGED <<buf, wire, scan, last, backend, executed, conns, sent>>

\* the commands that write to a keyspace; executed is the history of the writes
\* this backend has executed
Writes(c) == c.kind \in {"SAdd", "Set", "HSet"}

ExecuteCommand ==
    /\ cmd.status = "Ok"
    /\ \E r \in {Execute(cmd, backend)} :
          /\ backend' = r.store
          /\ last' = [op |-> "execute", cmd |-> cmd, reply |-> r.reply, before |-> backend]
    /\ executed' = IF Writes(cmd) THEN executed \cup {[kind |-> cmd.kind, args |-> cmd.args]}
                    ELSE executed
    /\ cmd' = NoCmd
    /\ UNCHANGED <<buf, wire, scan, conns, sent>>

\* validate_command on an array, a list of names and an argument count
ValidateCommand ==
    /\ cmd = NoCmd
    /\ last = NoResult
    /\ \E value \in ValidateInputs, names \in NameLists, n_args \in 0..MaxArgs :
          last' = [op |-> "validate_command", value |-> value, names |-> names,
                   n_args |-> n_args, status |-> validate_command(value, names, n_args)]
    /\ UNCHANGED <<buf, wire, scan, backend, cmd, executed, conns, sent>>

\* the reply, or the error of a command that was not constructed, goes to the client
Respond ==
    /\ \/ last.op \in {"execute", "validate_command"}
       \/ cmd.status \notin {"none", "Ok"}
    /\ cmd' = NoCmd
    /\ last' = NoResult
    /\ UNCHANGED <<buf, wire, scan, backend, executed, conns, sent>>

NextCmd ==
    \/ Construct
    \/ ValidateCommand
    \/ ExecuteCommand
    \/ Respond

SpecCmd == Init /\ [][NextCmd]_vars

(***************************************************************************)
(* Several connections execute SAdd and SisMember on the shared backend.   *)
(* An operation on a key holds that key's lock for its duration only; the  *)
(* insert is a read of the set, then a write of the set with the member.   *)
(***************************************************************************)
SetAt(store, key) == IF key \in DOMAIN store.set THEN store.set[key] ELSE {}

PutSet(store, key, members) ==
    IF key \in DOMAIN store.set
    THEN [store EXCEPT !.set = [@ EXCEPT ![key] = members]]
    ELSE [store EXCEPT !.set = @ @@ (key :> members)]

\* the connection holds the lock of the key
Holds(c, key) ==
    conns[c].pc \in {"locked", "read", "written"} /\ conns[c].cmd.args[1] = key

\* no lock at all: every operation proceeds at once
KeyLocked_Never(key) == FALSE

KeyLocked(key) == \E c \in Conns : Holds(c, key)

\* the connection has called SAdd and the call has not returned
InProgress(c) ==
    conns[c].cmd.kind = "SAdd" /\ conns[c].pc \in {"ready", "locked", "read", "written"}

\* a write of the kind with these leading arguments is in the history
Wrote(kind, args) ==
    \E e \in executed : e.kind = kind /\ SubSeq(e.args, 1, Len(args)) = args

\* cmd.execute(&backend) is called on a connection
Call(c) ==
    /\ conns[c].pc = "idle"
    /\ \E command \in ConcCommands :
          conns' = [conns EXCEPT ![c] =
                      [pc |-> "ready", cmd |-> command, local |-> {}, reply |-> NoFrame,
                       must |-> command.kind = "SisMember" /\ Wrote("SAdd", command.args),
                       during |-> command.kind = "SAdd"
                                    /\ \E d \in Conns \ {c} : InProgress(d)]]
    /\ UNCHANGED <<buf, wire, scan, last, backend, cmd, executed, sent>>

SAddLock(c) ==
    /\ conns[c].pc = "ready"
    /\ conns[c].cmd.kind = "SAdd"
    /\ ~KeyLocked(conns[c].cmd.args[1])
    /\ conns' = [conns EXCEPT ![c].pc = "locked"]
    /\ UNCHANGED <<buf, wire, scan, last, backend, cmd, executed, sent>>

SAddRead(c) ==
    /\ conns[c].pc = "locked"
    /\ conns' = [conns EXCEPT ![c].pc = "read",
                              ![c].local = SetAt(backend, conns[c].cmd.args[1])]
    /\ UNCHANGED <<buf, wire, scan, last, backend, cmd, executed, sent>>

SAddWrite(c) ==
    /\ conns[c].pc = "read"
    /\ backend' = PutSet(backend, conns[c].cmd.args[1],
                         conns[c].local \cup {conns[c].cmd.args[2]})
    /\ conns' = [conns EXCEPT ![c].pc = "written", ![c].local = {}]
    /\ UNCHANGED <<buf, wire, scan, last, cmd, executed, sent>>

\* the lock is released and SAdd's execute returns its reply
SAddUnlock(c) ==
    /\ conns[c].pc = "written"
    /\ conns' = [conns EXCEPT ![c].pc = "done",
                              ![c].reply = ExecuteSAdd(conns[c].cmd, backend).reply]
    /\ executed' = executed \cup {[kind |-> "SAdd", args |-> conns[c].cmd.args]}
    /\ UNCHANGED <<buf, wire, scan, last, backend, cmd, sent>>

\* SisMember's execute: the lookup waits for the key's lock and is one step
SisMemberRead(c) ==
    /\ conns[c].pc = "ready"
    /\ conns[c].cmd.kind = "SisMember"
    /\ ~KeyLocked(conns[c].cmd.args[1])
    /\ conns' = [conns EXCEPT ![c].pc = "done",
                              ![c].reply = ExecuteSisMember(conns[c].cmd, backend).reply]
    /\ UNCHANGED <<buf, wire, scan, last, backend, cmd, executed, sent>>

\* the reply is written to the connection
Return(c) ==
    /\ conns[c].pc = "done"
    /\ conns' = [conns EXCEPT ![c] = Idle]
    /\ UNCHANGED <<buf, wire, scan, last, backend, cmd, executed, sent>>

NextConc ==
    \E c \in Conns :
        \/ Call(c)
        \/ SAddLock(c)
        \/ SAddRead(c)
        \/ SAddWrite(c)
        \/ SAddUnlock(c)
        \/ SisMemberRead(c)
        \/ Return(c)

SpecConc == Init /\ [][NextConc]_vars

Next ==
    \/ Send
    \/ SendNext
    \/ SendRaw
    \/ \E n \in 1..MaxBuf : Recv(n)
    \/ BulkDecode
    \/ ArrayDecode
    \/ BulkExpectLength
    \/ ArrayExpectLength

Spec == Init /\ [][Next]_vars

(***************************************************************************)
(* Properties.                                                             *)
(***************************************************************************)
IsDecode == last.op \in {"BulkString::decode", "RespArray::decode"}

\* the frames of the type a decode was asked for
FramesOf(op) == IF op = "BulkString::decode" THEN BulkFrames ELSE ArrayFrames

StrictPrefixOfFrame(b, op) ==
    \E f \in FramesOf(op) : IsStrictPrefix(b, RespFrameEncode(f))

C2_ScanMatchesDecode ==
    (/\ IsDecode
     /\ last.status = "Ok"
     /\ scan.status = "Ok"
     /\ scan.input = last.before
     /\ scan.op = (IF last.op = "BulkString::decode" THEN "BulkString::expect_length"
                   ELSE "RespArray::expect_length"))
        => scan.n = Len(last.before) - Len(buf)

\* C3: every successful decode leaves a strictly shorter buffer.
C3_DecodeShortensBuffer ==
    (IsDecode /\ last.status = "Ok") => Len(buf) < Len(last.before)

\* C4: decode of a buffer holding exactly encode(f) returns a value equal to f,
\* for every BulkString and Array f.
C4_CodecRoundTrip ==
    \A f \in CodecFrames :
        (IsDecode /\ last.before = RespFrameEncode(f))
            => (last.status = "Ok" /\ FrameEq(last.frame, f))

\* C5: parse_frame on the encoding of a frame returns the frame and consumes the
\* whole encoding.
C5_ParserRoundTrip ==
    \A f \in ParserFrames :
        (last.op = "parse_frame" /\ last.before = RespFrameEncode(f))
            => (last.status = "Ok" /\ FrameEq(last.frame, f) /\ last.rest = <<>>)

\* C6: parse_frame_length succeeds with n exactly when parse_frame succeeds on the
\* same input, and then parse_frame consumes n bytes.
C6_ScanAgreesWithParser ==
    (scan.op = "parse_frame_length" /\ last.op = "parse_frame" /\ scan.input = last.before)
        => /\ (scan.status = "Ok") <=> (last.status = "Ok")
           /\ scan.status = "Ok" => scan.n = Len(last.before) - Len(last.rest)

\* the input starts with a BulkString or Array length token that declares a
\* negative length other than -1
DeclaresBadLength(b) ==
    /\ Len(b) >= 2
    /\ b[1] \in {"$", "*"}
    /\ b[2] = "-"
    /\ FindCRLF(b, 1) > 0
    /\ ParseIsize(SubSeq(b, 2, FindCRLF(b, 1) - 1)).ok
    /\ ParseIsize(SubSeq(b, 2, FindCRLF(b, 1) - 1)).val < -1

\* C7: a BulkString or Array that declares a negative length other than -1 fails
\* with InvalidFrame: it is not reported as NotComplete, is not decoded into a
\* value and consumes nothing.
C7_BadLengthIsInvalidFrame ==
    /\ (scan.op # "none" /\ DeclaresBadLength(scan.input)) => scan.status = "InvalidFrame"
    /\ (last.op = "parse_frame" /\ DeclaresBadLength(last.before)) => last.status # "Ok"
    /\ (IsDecode /\ DeclaresBadLength(last.before))
          => (last.status = "InvalidFrame" /\ buf = last.before)

TypePrefixes == {"+", "-", ":", "$", "*", "_", "#", ",", "%"}

UnrecognizedPrefix(b) == b # <<>> /\ b[1] \notin TypePrefixes

\* C8: parse_frame_length returns InvalidFrame when the first byte is no type
\* prefix or a declared length breaks the rule of its type, and NotComplete only
\* when more bytes could complete the input.
C8_ScanClassifiesFailures ==
    (scan.op = "parse_frame_length"
        /\ (UnrecognizedPrefix(scan.input) \/ DeclaresBadLength(scan.input)))
        => (scan.status = "InvalidFrame" /\ scan.status # "NotComplete")

\* the variant the match of TryFrom<RespArray> for Command names for a lower-case name
KindOf(name) ==
    CommandNames[CHOOSE i \in 1..Len(CommandNames) : CommandNames[i][1] = name][2]

Constructed == cmd.status # "none"

\* C9: a command name in any upper/lower-case spelling, sent with the right
\* number of arguments, constructs that command's variant.
C9_CaseInsensitiveNames ==
    (Constructed /\ cmd.input \in SpelledInputs)
        => /\ cmd.status = "Ok"
           /\ cmd.kind = KindOf(to_ascii_lowercase(cmd.input.data[1].data))

\* the frame is an Array whose first element is a non-null BulkString that is no
\* command name in any spelling
UnknownCommand(v) ==
    /\ v.type = "Array"
    /\ ~v.null
    /\ v.data # <<>>
    /\ v.data[1].type = "BulkString"
    /\ ~v.data[1].null
    /\ to_ascii_lowercase(v.data[1].data) \notin KnownNames

\* C10: an Array whose first element is a non-null BulkString matching no command
\* name constructs Unrecognized without error, whatever follows the name; executing
\* it replies SimpleString "OK" and leaves every keyspace as it was.
C10_UnrecognizedIsAccepted ==
    /\ (Constructed /\ UnknownCommand(cmd.input))
          => (cmd.status = "Ok" /\ cmd.kind = "Unrecognized")
    /\ (last.op = "execute" /\ UnknownCommand(last.cmd.input))
          => /\ last.cmd.kind = "Unrecognized"
             /\ FrameEq(last.reply, RESP_OK)
             /\ backend = last.before

\* "FOO" with two further elements was executed on a backend that holds data
C10_Witness ==
    /\ last.op = "execute"
    /\ last.cmd.input = RespArray(<<BulkString(<<"F", "O", "O">>), ArgK, ArgM>>)
    /\ FrameEq(last.reply, RESP_OK)
    /\ backend.set # <<>>
    /\ backend = last.before

\* the frame is an Array whose leading element is a null BulkString
NullNamed(v) ==
    /\ v.type = "Array"
    /\ ~v.null
    /\ v.data # <<>>
    /\ v.data[1].type = "BulkString"
    /\ v.data[1].null

\* C11: constructing a Command from an Array whose leading element is a null
\* BulkString fails with InvalidCommand and constructs no variant.
C11_NullNameIsInvalidCommand ==
    (Constructed /\ NullNamed(cmd.input))
        => (cmd.status = "InvalidCommand" /\ cmd.kind = "none")

\* the frame is no Array, a null or empty Array, or an Array whose first element
\* is no BulkString
NotACommand(v) ==
    \/ v.type # "Array"
    \/ v.null
    \/ v.data = <<>>
    \/ v.data[1].type # "BulkString"

\* C12: constructing a Command from a frame that is no Array, from a null or
\* empty Array, or from an Array whose first element is no BulkString fails with
\* InvalidCommand and yields no command.
C12_NotACommandIsInvalidCommand ==
    (Constructed /\ NotACommand(cmd.input))
        => (cmd.status = "InvalidCommand" /\ cmd.kind = "none")

\* a BulkString frame that is no Array was offered as a command and refused
C12_Witness ==
    /\ cmd.input = ArgK
    /\ cmd.status = "InvalidCommand"
    /\ cmd.kind = "none"

\* the name token at position i is a null BulkString, no BulkString, or differs
\* from the expected name when ASCII case is ignored
BadNameToken(items, names, i) ==
    \/ items[i].type # "BulkString"
    \/ items[i].null
    \/ to_ascii_lowercase(items[i].data) # names[i]

\* C13: validate_command returns InvalidArgument whenever the array's length is
\* not names.len() + n_args (a null array has length 0), InvalidCommand when the
\* length is right but some name token is bad, Ok otherwise, and never indexes the
\* array out of bounds.
C13_ValidateCommand ==
    (last.op = "validate_command")
        => /\ last.status # "Panic"
           /\ last.status =
                (IF Len(Items(last.value)) # Len(last.names) + last.n_args
                 THEN "InvalidArgument"
                 ELSE IF \E i \in 1..Len(last.names) :
                            BadNameToken(Items(last.value), last.names, i)
                 THEN "InvalidCommand"
                 ELSE "Ok")

\* two names and one argument were asked of [echo, null, k]: the arity is right
\* and the second name token is a null BulkString
C13_Witness ==
    /\ last.op = "validate_command"
    /\ last.value = RespArray(<<BulkString(Name_echo), NullBulkString, ArgK>>)
    /\ last.names = <<Name_echo, Name_get>>
    /\ last.n_args = 1
    /\ last.status = "InvalidCommand"

\* the frame is [BulkString "echo", BulkString m] with m non-null valid text
EchoOf(v) ==
    /\ v.type = "Array"
    /\ ~v.null
    /\ Len(v.data) = 2
    /\ v.data[1] = BulkString(Name_echo)
    /\ v.data[2].type = "BulkString"
    /\ ~v.data[2].null
    /\ ValidUtf8(v.data[2].data)

\* C14: [BulkString "echo", BulkString m] with m valid non-null text constructs
\* Echo with message m; executing it replies the non-null BulkString m, byte for
\* byte, also for the empty m, and leaves the backend as it was.
C14_EchoRoundTrip ==
    /\ (Constructed /\ EchoOf(cmd.input))
          => /\ cmd.status = "Ok"
             /\ cmd.kind = "Echo"
             /\ cmd.args = <<cmd.input.data[2].data>>
    /\ (last.op = "execute" /\ EchoOf(last.cmd.input))
          => /\ last.reply.type = "BulkString"
             /\ ~last.reply.null
             /\ last.reply.data = last.cmd.input.data[2].data
             /\ backend = last.before

\* the empty message was echoed on a backend that holds data
C14_Witness ==
    /\ last.op = "execute"
    /\ last.cmd.input = RespArray(<<BulkString(Name_echo), BulkString(<<>>)>>)
    /\ last.reply = BulkString(<<>>)
    /\ backend.map # <<>>
    /\ backend = last.before

\* C15: SisMember(k, m) replies Integer 1 exactly when an earlier SAdd(k, m) with
\* the same key and member was executed on the backend, and Integer 0 otherwise;
\* the history only grows, so a reply of 1 stays 1.
C15_SetMembership ==
    (last.op = "execute" /\ last.cmd.kind = "SisMember")
        => FrameEq(last.reply,
                   Integer(IF Wrote("SAdd", last.cmd.args) THEN 1 ELSE 0))

\* SisMember(k, m) replied 0 although another member was added at k and m was
\* added at another key
C15_Witness ==
    /\ last.op = "execute"
    /\ last.cmd.kind = "SisMember"
    /\ last.cmd.args = <<ArgK.data, ArgM.data>>
    /\ Wrote("SAdd", <<ArgK.data, ArgK.data>>)
    /\ Wrote("SAdd", <<ArgM.data, ArgM.data>>)
    /\ FrameEq(last.reply, Integer(0))

\* C16: SAdd(k, m) of a member already in the set at k leaves the set keyspace
\* as it was, and every SAdd replies Integer 1.
C16_SAddIdempotent ==
    (last.op = "execute" /\ last.cmd.kind = "SAdd")
        => /\ FrameEq(last.reply, Integer(1))
           /\ backend_sismember(last.before, last.cmd.args[1], last.cmd.args[2])
                 => backend = last.before

\* SAdd(k, m) was executed a second time
C16_Witness ==
    /\ last.op = "execute"
    /\ last.cmd.kind = "SAdd"
    /\ last.cmd.args = <<ArgK.data, ArgM.data>>
    /\ backend_sismember(last.before, ArgK.data, ArgM.data)
    /\ FrameEq(last.reply, Integer(1))
    /\ backend = last.before

\* C17: Get(k) replies Null in every state in which no Set(k, _) was executed,
\* also after SAdd on the same key text; Set(k, _) changes no result of SisMember.
C17_KeyspacesIndependent ==
    /\ (last.op = "execute" /\ last.cmd.kind = "Get"
           /\ ~Wrote("Set", <<last.cmd.args[1]>>))
          => FrameEq(last.reply, RespNull)
    /\ (last.op = "execute" /\ last.cmd.kind = "Set")
          => /\ backend.set = last.before.set
             /\ backend.hmap = last.before.hmap

\* Get(k) replied Null on a backend whose set and hash keyspaces hold the key k
C17_Witness ==
    /\ last.op = "execute"
    /\ last.cmd.kind = "Get"
    /\ last.cmd.args = <<ArgK.data>>
    /\ ArgK.data \in DOMAIN backend.set
    /\ ArgK.data \in DOMAIN backend.hmap
    /\ ~Wrote("Set", <<ArgK.data>>)
    /\ FrameEq(last.reply, RespNull)

\* C18: under concurrent SAdd and SisMember on one key no SAdd is lost (every
\* member whose SAdd returned is in the set), and each SisMember replies the
\* membership before or after the concurrent SAdd calls: 1 when the member's SAdd
\* had returned before the call, and 1 only when a SAdd of the member was called.
C18_PerKeyAtomicity ==
    /\ \A e \in executed :
          e.kind = "SAdd" => backend_sismember(backend, e.args[1], e.args[2])
    /\ \A c \in Conns :
          (conns[c].pc = "done" /\ conns[c].cmd.kind = "SisMember")
              => /\ FrameEq(conns[c].reply, Integer(0)) \/ FrameEq(conns[c].reply, Integer(1))
                 /\ conns[c].must => FrameEq(conns[c].reply, Integer(1))
                 /\ FrameEq(conns[c].reply, Integer(1))
                       => \/ Wrote("SAdd", conns[c].cmd.args)
                          \/ \E d \in Conns :
                                InProgress(d) /\ conns[d].cmd.args = conns[c].cmd.args

\* two SAdd calls of different members on the key overlapped and both returned
C18_Witness ==
    /\ \E c, d \in Conns :
          /\ c # d
          /\ conns[c].pc = "done" /\ conns[c].cmd = CmdOk("SAdd", <<ArgK.data, ArgK.data>>)
          /\ conns[d].pc = "done" /\ conns[d].cmd = CmdOk("SAdd", <<ArgK.data, ArgM.data>>)
          /\ conns[d].during
    /\ SetAt(backend, ArgK.data) = {ArgK.data, ArgM.data}

\* decoding the whole encoding at once, with the decoder of its type
WholeDecode(enc) ==
    IF enc[1] = "$" THEN BulkStringDecode(enc) ELSE RespArrayDecode(enc)

\* C19: while chunks of a complete Array or BulkString encoding are appended to
\* the buffer, every decode tried before the last chunk arrived returns
\* NotComplete and the decode tried after it returns the frame that decoding the
\* whole encoding at once returns, also when an earlier frame was decoded from the
\* buffer before.
C19_StreamingRetry ==
    (IsDecode /\ sent.state \in {"streaming", "decoded"})
        => IF wire # <<>> THEN last.status = "NotComplete"
           ELSE /\ last.status = "Ok"
                /\ FrameEq(last.frame, WholeDecode(sent.enc).frame)

\* the input starts with a Map header that declares an odd, zero or negative
\* pair-count
DeclaresBadPairCount(b) ==
    /\ Len(b) >= 2
    /\ b[1] = "%"
    /\ FindCRLF(b, 1) > 0
    /\ ParseIsize(SubSeq(b, 2, FindCRLF(b, 1) - 1)).ok
    /\ \/ ParseIsize(SubSeq(b, 2, FindCRLF(b, 1) - 1)).val <= 0
       \/ ParseIsize(SubSeq(b, 2, FindCRLF(b, 1) - 1)).val % 2 = 1

\* C20: a Map whose declared pair-count is odd, zero or negative is rejected by
\* the length scan with InvalidFrame and by the parser; no Map value is produced
\* and the scan reports no length.
C20_BadPairCountIsInvalidFrame ==
    /\ (scan.op = "parse_frame_length" /\ DeclaresBadPairCount(scan.input))
          => scan.status = "InvalidFrame"
    /\ (last.op = "parse_frame" /\ DeclaresBadPairCount(last.before))
          => (last.status # "Ok" /\ last.frame.type # "Map")

\* the frame is an Array led by the name echo, sadd or sismember with the right
\* number of arguments, one of which is no BulkString, a null BulkString, or no
\* valid UTF-8
ArgFault(v) ==
    /\ v.type = "Array"
    /\ ~v.null
    /\ v.data # <<>>
    /\ v.data[1].type = "BulkString"
    /\ ~v.data[1].null
    /\ \/ v.data[1].data = Name_echo /\ Len(v.data) = 2
       \/ v.data[1].data \in {Name_sadd, Name_sismember} /\ Len(v.data) = 3
    /\ \E i \in 2..Len(v.data) :
          \/ v.data[i].type # "BulkString"
          \/ v.data[i].null
          \/ ~ValidUtf8(v.data[i].data)

\* C21: for Echo, SAdd and SisMember with a valid name and arity, an argument
\* that is no BulkString, a null BulkString or no valid UTF-8 makes construction
\* fail with InvalidArgument or the UTF-8 error, no other kind, and no command is
\* constructed.
C21_ArgumentErrors ==
    (Constructed /\ ArgFault(cmd.input))
        => (cmd.status \in {"InvalidArgument", "Utf8Error"} /\ cmd.kind = "none")

\* the command of the step about to be executed failed to be constructed, or the
\* step constructs a command and fails
ConstructionFailed(c) == c.status \notin {"none", "Ok"}

\* the two stores differ at most in the set stored at the key
OnlySetAtKeyChanged(before, after, key) ==
    /\ after.map = before.map
    /\ after.hmap = before.hmap
    /\ DOMAIN after.set \subseteq DOMAIN before.set \cup {key}
    /\ \A other \in DOMAIN before.set \ {key} :
          other \in DOMAIN after.set /\ after.set[other] = before.set[other]

\* C22: executing Echo, Unrecognized or SisMember leaves the three keyspaces as
\* they were (SisMember creates no entry for an absent key); executing SAdd(k, m)
\* changes nothing but the set stored at k; a command whose construction fails
\* changes nothing.
C22_ExecutionFrame ==
    [][/\ (cmd.status = "Ok" /\ cmd.kind \in {"Echo", "Unrecognized", "SisMember"})
             => backend' = backend
       /\ (cmd.status = "Ok" /\ cmd.kind = "SAdd")
             => OnlySetAtKeyChanged(backend, backend', cmd.args[1])
       /\ (ConstructionFailed(cmd) \/ ConstructionFailed(cmd'))
             => backend' = backend]_vars

\* SisMember was executed for a key the set keyspace lacks while the other
\* keyspaces and another key of the set keyspace hold data, and no entry appeared
C22_Witness ==
    /\ last.op = "execute"
    /\ last.cmd.kind = "SisMember"
    /\ last.cmd.args[1] \notin DOMAIN last.before.set
    /\ last.before.set # <<>>
    /\ last.before.map # <<>>
    /\ last.before.hmap # <<>>
    /\ backend = last.before

====
